---- MODULE Spec2Model ----
(***************************************************************************)
(* Model of MLlib/loss_func.py: the MeanSquaredError graph node (forward,  *)
(* backward, the context bridging them), its legacy loss(X, Y, W), and the *)
(* classical AbsoluteError.derivative and Huber.loss.                      *)
(*                                                                         *)
(* Arrays are records [shape, data, div]: shape is the tuple of axis sizes, *)
(* data the row-major flattening of integer numerators and div the common  *)
(* divisor, so that a division by a count stays exact: element k of the    *)
(* array is data[k] / div.  Input arrays have div = 1.                     *)
(***************************************************************************)
EXTENDS Integers, Sequences, FiniteSets, TLC

VARIABLES ctx, inputs, ret, nback, classic

vars == <<ctx, inputs, ret, nback, classic>>

-----------------------------------------------------------------------------
(* Bounds *)

MaxDim == 3

MaxVal == 1

MaxGrad == 2

MaxBackward == 2

MaxDelta == 3

-----------------------------------------------------------------------------
(* Numeric array substrate (numpy) *)

Abs(x) == IF x < 0 THEN -x ELSE x

Max(a, b) == IF a >= b THEN a ELSE b

RECURSIVE Prod(_)
Prod(s) == IF Len(s) = 0 THEN 1 ELSE Head(s) * Prod(Tail(s))

RECURSIVE SumSeq(_)
SumSeq(s) == IF Len(s) = 0 THEN 0 ELSE Head(s) + SumSeq(Tail(s))

\* 0-based index tuple of the k-th (0-based) element of a row-major array
Unravel(k, shape) ==
    [i \in 1..Len(shape) |->
        (k \div Prod(SubSeq(shape, i + 1, Len(shape)))) % shape[i]]

\* 0-based flat offset of an index tuple
Ravel(idx, shape) ==
    SumSeq([i \in 1..Len(shape) |->
        idx[i] * Prod(SubSeq(shape, i + 1, Len(shape)))])

\* axis i of a shape left-padded with 1s to rank r
PadDim(shape, r, i) ==
    IF i <= r - Len(shape) THEN 1 ELSE shape[i - (r - Len(shape))]

Compatible(s, t) ==
    LET r == Max(Len(s), Len(t))
    IN  \A i \in 1..r :
            \/ PadDim(s, r, i) = PadDim(t, r, i)
            \/ PadDim(s, r, i) = 1
            \/ PadDim(t, r, i) = 1

BroadcastShape(s, t) ==
    LET r == Max(Len(s), Len(t))
    IN  [i \in 1..r |-> Max(PadDim(s, r, i), PadDim(t, r, i))]

\* element of arr seen through broadcasting at index tuple idx of a larger shape
BroadcastAt(arr, idx) ==
    LET r   == Len(idx)
        off == r - Len(arr.shape)
        loc == [j \in 1..Len(arr.shape) |->
                   IF arr.shape[j] = 1 THEN 0 ELSE idx[off + j]]
    IN  arr.data[Ravel(loc, arr.shape) + 1]

\* a - b, elementwise with broadcasting
Subtract(a, b) ==
    LET s == BroadcastShape(a.shape, b.shape)
    IN  [shape |-> s,
         data  |-> [k \in 1..Prod(s) |->
                       BroadcastAt(a, Unravel(k - 1, s))
                     - BroadcastAt(b, Unravel(k - 1, s))],
         div   |-> 1]

\* np.sum(np.power(a, 2))
SumSquares(a) == SumSeq([k \in 1..Len(a.data) |-> a.data[k] * a.data[k]])

\* a.T : reverses the axes (a vector is its own transpose)
Transpose(a) ==
    IF Len(a.shape) < 2 THEN a
    ELSE LET rows == a.shape[1]
             cols == a.shape[2]
         IN  [shape |-> <<cols, rows>>,
              data  |-> [k \in 1..(rows * cols) |->
                            a.data[((k - 1) % rows) * cols + ((k - 1) \div rows) + 1]],
              div   |-> a.div]

\* shapes np.dot accepts for vectors and matrices
DotDefined(a, b) ==
    /\ Len(a.shape) \in {1, 2}
    /\ Len(b.shape) \in {1, 2}
    /\ a.shape[Len(a.shape)] = b.shape[1]

\* np.dot for vectors and matrices; a vector . vector product is a 0-d array
Dot(a, b) ==
    LET n  == b.shape[1]
        ra == IF Len(a.shape) = 2 THEN a.shape[1] ELSE 1
        cb == IF Len(b.shape) = 2 THEN b.shape[2] ELSE 1
        sh == (IF Len(a.shape) = 2 THEN <<ra>> ELSE <<>>)
              \o (IF Len(b.shape) = 2 THEN <<cb>> ELSE <<>>)
    IN  [shape |-> sh,
         data  |-> [k \in 1..(ra * cb) |->
                       SumSeq([j \in 1..n |->
                           a.data[((k - 1) \div cb) * n + j]
                         * b.data[(j - 1) * cb + ((k - 1) % cb) + 1]])],
         div   |-> 1]

\* a / n for a count n
Divide(a, n) == [a EXCEPT !.div = @ * n]

\* a * g for a scalar g
Scale(a, g) == [a EXCEPT !.data = [k \in 1..Len(a.data) |-> a.data[k] * g]]

\* a 0-d array holding num / den
Scalar(num, den) == [shape |-> <<>>, data |-> <<num>>, div |-> den]

\* np.arange(size)*step + base, reshaped
Fill(shape, base, step) ==
    [shape |-> shape,
     data  |-> [k \in 1..Prod(shape) |-> base + step * (k - 1)],
     div   |-> 1]

Dims == 1..MaxDim

Vals == 0..MaxVal

Shapes == {<<a>> : a \in Dims} \cup {<<a, b>> : a, b \in Dims}

-----------------------------------------------------------------------------
(* unbroadcast (MLlib.utils.misc_utils): sums a gradient of shape S down to *)
(* shape T over the axes where the two disagree                             *)

RECURSIVE SumOver(_, _)
SumOver(f, S) ==
    IF S = {} THEN 0
    ELSE LET k == CHOOSE x \in S : TRUE
         IN  f[k] + SumOver(f, S \ {k})

unbroadcast(arr, T) ==
    LET S   == arr.shape
        off == Len(S) - Len(T)
        \* where element k of arr lands in the reduced array
        dst(k) == LET idx == Unravel(k - 1, S)
                  IN  Ravel([j \in 1..Len(T) |->
                                IF T[j] = 1 THEN 0 ELSE idx[off + j]], T) + 1
    IN  [shape |-> T,
         data  |-> [m \in 1..Prod(T) |->
                       SumOver(arr.data,
                               {k \in 1..Prod(S) : dst(k) = m})],
         div   |-> arr.div]

-----------------------------------------------------------------------------
(* Tensor and the context record *)

NoArray == [shape |-> <<0>>, data |-> <<>>, div |-> 1]

\* Tensor(data, requires_grad, is_leaf)
Tensor(data, requires_grad, is_leaf) ==
    [tname |-> "Tensor", data |-> data,
     requires_grad |-> requires_grad, is_leaf |-> is_leaf]

\* a raw numpy array passed in place of a Tensor
Raw(tname, data) ==
    [tname |-> tname, data |-> data,
     requires_grad |-> FALSE, is_leaf |-> TRUE]

NoValue == Raw("NoneType", NoArray)

\* a context no forward has touched
FreshCtx == [forwarded |-> FALSE, attrs |-> {}, derivative_core |-> NoArray]

NoInputs == [prediction |-> NoValue, target |-> NoValue]

NoRet ==
    [op |-> "none", status |-> "none", exc |-> "none", args |-> <<>>,
     value |-> NoValue, g |-> 0]

NoClassic ==
    [op |-> "none", X |-> NoArray, Y |-> NoArray, W |-> NoArray, delta |-> 0,
     out |-> NoArray, fwd |-> NoArray]

-----------------------------------------------------------------------------
(* MeanSquaredError.forward *)

\* the test with "or" in place of "and"
TypeCheckEither(prediction, target) ==
    prediction.tname = "Tensor" \/ target.tname = "Tensor"

\* the isinstance-by-name test guarding forward
TypeCheckPasses(prediction, target) ==
    prediction.tname = "Tensor" /\ target.tname = "Tensor"

\* requires_grad taken from either input
RequiresGradAny(prediction, target) ==
    prediction.requires_grad \/ target.requires_grad

\* requires_grad = prediction.requires_grad
RequiresGrad(prediction, target) == prediction.requires_grad

\* batch_size = target.data.shape[0]
batch_size(target) == target.data.shape[1]

\* out = prediction.data - target.data
Diff(prediction, target) == Subtract(prediction.data, target.data)

\* the cache written without the requires_grad test
CtxAlwaysCached(c, prediction, target) ==
    [c EXCEPT !.attrs = @ \cup {"derivative_core"},
              !.derivative_core = Diff(prediction, target)]

\* if requires_grad: ctx.derivative_core = out
CtxAfterForward(c, prediction, target) ==
    IF RequiresGrad(prediction, target)
    THEN [c EXCEPT !.attrs = @ \cup {"derivative_core"},
                   !.derivative_core = Diff(prediction, target)]
    ELSE c

\* np.sum(np.power(out, 2)) / (2*batch_size)
ForwardLoss(prediction, target) ==
    Scalar(SumSquares(Diff(prediction, target)), 2 * batch_size(target))

\* Tensor(out, requires_grad=requires_grad, is_leaf=not requires_grad)
OutputTensor(out, requires_grad) ==
    Tensor(out, requires_grad, ~requires_grad)

Raised(op, exc, args) ==
    [op |-> op, status |-> "raised", exc |-> exc, args |-> args,
     value |-> NoValue, g |-> 0]

Returned(op, value, g) ==
    [op |-> op, status |-> "ok", exc |-> "none", args |-> <<>>,
     value |-> value, g |-> g]

\* what forward hands back to its caller: the output Tensor or the exception
ForwardResult(prediction, target) ==
    IF ~TypeCheckPasses(prediction, target)
    THEN Raised("forward", "RuntimeError", <<prediction.tname, target.tname>>)
    ELSE IF ~Compatible(prediction.data.shape, target.data.shape)
    THEN Raised("forward", "ValueError", <<>>)
    ELSE Returned("forward",
                  OutputTensor(ForwardLoss(prediction, target),
                               RequiresGrad(prediction, target)), 0)

\* the context as forward leaves it (an exception leaves it untouched)
ForwardCtx(c, prediction, target) ==
    IF TypeCheckPasses(prediction, target)
       /\ Compatible(prediction.data.shape, target.data.shape)
    THEN CtxAfterForward(c, prediction, target)
    ELSE c

-----------------------------------------------------------------------------
(* MeanSquaredError.backward *)

\* derivative = ctx.derivative_core
HasDerivativeCore(c) == "derivative_core" \in c.attrs

\* (derivative / derivative.shape[0]) * grad_output.data
grad_prediction(derivative, g) ==
    Scale(Divide(derivative, derivative.shape[1]), g)

\* Tensor(unbroadcast(grad_prediction, derivative.shape))
BackwardGradient(derivative, g) ==
    Tensor(unbroadcast(grad_prediction(derivative, g), derivative.shape),
           FALSE, TRUE)

\* backward that reads the context without failing on a missing attribute
BackwardUnchecked(c, g) ==
    Returned("backward", BackwardGradient(c.derivative_core, g), g)

BackwardResult(c, g) ==
    IF HasDerivativeCore(c)
    THEN Returned("backward", BackwardGradient(c.derivative_core, g), g)
    ELSE Raised("backward", "AttributeError", <<"derivative_core">>)

\* backward that deletes the cached diff once it has used it
BackwardConsumes(c) ==
    [c EXCEPT !.attrs = {}, !.derivative_core = NoArray]

\* backward only reads the context
BackwardCtx(c) == c

-----------------------------------------------------------------------------
(* Inputs *)

BOOL == {FALSE, TRUE}

PredArrays == {Fill(s, b, 1) : s \in Shapes, b \in Vals}

TargetArrays == {Fill(s, b, 0) : s \in Shapes, b \in Vals}

Values(arrays) ==
    {Tensor(a, rg, TRUE) : a \in arrays, rg \in BOOL}
        \cup {Raw("ndarray", a) : a \in arrays}

Grads == 1..MaxGrad

-----------------------------------------------------------------------------
(* Graph mode: one live context; each forward gets a context of its own *)

Init ==
    /\ ctx = FreshCtx
    /\ inputs = NoInputs
    /\ ret = NoRet
    /\ nback = 0
    /\ classic = NoClassic

\* the executor allocates a new context for the next call
NewContext ==
    /\ ctx.forwarded \/ ret.op # "none"
    /\ ctx' = FreshCtx
    /\ inputs' = NoInputs
    /\ ret' = NoRet
    /\ nback' = 0
    /\ UNCHANGED classic

Forward ==
    /\ ~ctx.forwarded
    /\ \E prediction \in Values(PredArrays), target \in Values(TargetArrays) :
          /\ inputs' = [prediction |-> prediction, target |-> target]
          /\ ret' = ForwardResult(prediction, target)
          /\ ctx' = [ForwardCtx(ctx, prediction, target)
                        EXCEPT !.forwarded = TRUE]
    /\ nback' = 0
    /\ UNCHANGED classic

Backward ==
    /\ nback < MaxBackward
    /\ \E g \in Grads :
          /\ ret' = BackwardResult(ctx, g)
          /\ nback' = IF ret'.status = "ok" THEN nback + 1 ELSE nback
    /\ ctx' = BackwardCtx(ctx)
    /\ UNCHANGED <<inputs, classic>>

Next == NewContext \/ Forward \/ Backward

Spec == Init /\ [][Next]_vars

-----------------------------------------------------------------------------
(* Classical mode: pure functions over raw arrays *)

\* np.dot(X, W).T - Y
Residual(X, Y, W) == Subtract(Transpose(Dot(X, W)), Y)

\* raw arrays for which np.dot(X, W).T - Y is defined
Accepted(X, Y, W) ==
    /\ DotDefined(X, W)
    /\ Compatible(Transpose(Dot(X, W)).shape, Y.shape)

\* MeanSquaredError.loss: np.sum((np.dot(X, W).T - Y) ** 2) / (2 * M)
MeanSquaredError_loss(X, Y, W) ==
    LET M == X.shape[1]
    IN  Scalar(SumSquares(Residual(X, Y, W)), 2 * M)

\* a sign that counts a zero residual as positive
SignNonNegative(e) == IF e >= 0 THEN 1 ELSE -1

\* np.divide(e, np.absolute(e), out=zeros, where=np.absolute(e) != 0), one element
SignFactor(e) == IF Abs(e) # 0 THEN e \div Abs(e) ELSE 0

\* AbsoluteError.derivative
AbsoluteError_derivative(X, Y, W) ==
    LET M        == X.shape[1]
        AbsError == Residual(X, Y, W)
        signs    == [AbsError EXCEPT !.data =
                        [k \in 1..Len(AbsError.data) |->
                            SignFactor(AbsError.data[k])]]
    IN  Divide(Transpose(Dot(signs, X)), M)

\* 0.5*(X-Y)**2, in halves
QuadraticBranch(d) == d * d

\* the linear branch without the 0.5 on delta
LinearNoHalf(d, delta) == delta * (2 * Abs(d) - 2 * delta)

\* delta*(np.abs(X-Y) - 0.5*delta), in halves
LinearBranch(d, delta) == delta * (2 * Abs(d) - delta)

\* Huber.loss: one loss per element, each a number of halves
Huber_loss(X, Y, delta) ==
    LET d == Subtract(X, Y)
    IN  [shape |-> d.shape,
         data  |-> [k \in 1..Len(d.data) |->
                       IF Abs(d.data[k]) <= delta
                       THEN QuadraticBranch(d.data[k])
                       ELSE LinearBranch(d.data[k], delta)],
         div   |-> 2]

Matrices == {a \in PredArrays : Len(a.shape) = 2}

Deltas == 1..MaxDelta

\* loss(X, Y, W), and forward driven with np.dot(X, W).T and Y as Tensors
LossCall ==
    /\ classic.op = "none"
    /\ \E X \in Matrices, Y \in TargetArrays, W \in TargetArrays :
          /\ Accepted(X, Y, W)
          /\ classic' =
                [op |-> "loss", X |-> X, Y |-> Y, W |-> W, delta |-> 0,
                 out |-> MeanSquaredError_loss(X, Y, W),
                 fwd |-> ForwardResult(
                             Tensor(Transpose(Dot(X, W)), FALSE, TRUE),
                             Tensor(Y, FALSE, TRUE)).value.data]
    /\ UNCHANGED <<ctx, inputs, ret, nback>>

AbsDerivativeCall ==
    /\ classic.op = "none"
    /\ \E X \in Matrices, Y \in TargetArrays, W \in TargetArrays :
          /\ Accepted(X, Y, W)
          /\ DotDefined(Residual(X, Y, W), X)
          /\ classic' =
                [op |-> "abs_derivative", X |-> X, Y |-> Y, W |-> W,
                 delta |-> 0,
                 out |-> AbsoluteError_derivative(X, Y, W),
                 fwd |-> NoArray]
    /\ UNCHANGED <<ctx, inputs, ret, nback>>

HuberLossCall ==
    /\ classic.op = "none"
    /\ \E X \in PredArrays, Y \in TargetArrays, delta \in Deltas :
          /\ Compatible(X.shape, Y.shape)
          /\ classic' =
                [op |-> "huber_loss", X |-> X, Y |-> Y, W |-> NoArray,
                 delta |-> delta,
                 out |-> Huber_loss(X, Y, delta),
                 fwd |-> NoArray]
    /\ UNCHANGED <<ctx, inputs, ret, nback>>

\* the call has returned; nothing of it persists
Return ==
    /\ classic.op # "none"
    /\ classic' = NoClassic
    /\ UNCHANGED <<ctx, inputs, ret, nback>>

NextClassic == LossCall \/ AbsDerivativeCall \/ HuberLossCall \/ Return

SpecClassic == Init /\ [][NextClassic]_vars

-----------------------------------------------------------------------------
(* Properties *)

ForwardReturned == ret.op = "forward" /\ ret.status = "ok"

BackwardReturned == ret.op = "backward" /\ ret.status = "ok"

\* the forward of the live context returned (ret may since hold a backward)
ForwardSucceeded ==
    /\ ctx.forwarded
    /\ TypeCheckPasses(inputs.prediction, inputs.target)
    /\ Compatible(inputs.prediction.data.shape, inputs.target.data.shape)

\* C1: the gradient backward returns has the shape the prediction had when
\* it was passed to forward
C1_GradientHasPredictionShape ==
    BackwardReturned =>
        ret.value.data.shape = inputs.prediction.data.shape

\* C2: the gradient backward returns is grad_output * diff / batch_size,
\* batch_size being the size of the target's leading axis that forward
\* divided by
C2_BackwardDividesByBatchSize ==
    BackwardReturned =>
        \A k \in 1..Len(ctx.derivative_core.data) :
            ret.value.data.data[k] * batch_size(inputs.target)
                = ret.g * ctx.derivative_core.data[k] * ret.value.data.div

\* C3: loss(X, Y, W) and forward driven with np.dot(X, W).T and Y return
\* the same scalar
C3_LegacyLossEqualsForward ==
    classic.op = "loss" =>
        classic.out.data[1] * classic.fwd.div
            = classic.fwd.data[1] * classic.out.div

\* C4 as claimed: a context yields a gradient at most once
C4_ContextConsumedOnce == nback <= 1

\* C4: backward does not consume the context: a backward after one that
\* returned a gradient finds the context as forward left it and returns a
\* gradient again, the same one for the same grad_output
C4_SecondBackwardReplays ==
    [][(nback >= 1 /\ ret'.op = "backward") =>
          /\ ctx' = ctx
          /\ ret'.status = "ok"
          /\ (ret'.g = ret.g => ret'.value = ret.value)]_vars

C4_Witness == nback = 2 /\ BackwardReturned

\* C5: a forward given a non-Tensor prediction or target raises an error
\* naming the type of each argument, returns no Tensor and leaves the
\* context as it was
C5_NonTensorRaises ==
    [][(/\ ~ctx.forwarded
        /\ ctx'.forwarded
        /\ \/ inputs'.prediction.tname # "Tensor"
           \/ inputs'.target.tname # "Tensor") =>
          /\ ret'.op = "forward"
          /\ ret'.status = "raised"
          /\ ret'.exc = "RuntimeError"
          /\ ret'.args = <<inputs'.prediction.tname, inputs'.target.tname>>
          /\ ret'.value = NoValue
          /\ ctx'.attrs = ctx.attrs
          /\ ctx'.derivative_core = ctx.derivative_core]_vars

C5_Witness ==
    /\ ret.op = "forward"
    /\ ret.status = "raised"
    /\ inputs.prediction.tname = "Tensor"
    /\ inputs.prediction.requires_grad
    /\ inputs.target.tname = "ndarray"
    /\ ctx.attrs = {}

\* C6 as claimed: after forward the context holds the diff if prediction or
\* target requires gradient, and nothing otherwise
C6_CachedIfAnyRequiresGrad ==
    ForwardReturned =>
        IF inputs.prediction.requires_grad \/ inputs.target.requires_grad
        THEN /\ ctx.attrs = {"derivative_core"}
             /\ ctx.derivative_core
                    = Subtract(inputs.prediction.data, inputs.target.data)
        ELSE ctx.attrs = {}

\* C6: after forward the context holds the diff if the prediction requires
\* gradient, and nothing otherwise, whatever the target's requires_grad;
\* it never holds the prediction or the target
C6_CachedIffPredictionRequiresGrad ==
    ForwardReturned =>
        IF inputs.prediction.requires_grad
        THEN /\ ctx.attrs = {"derivative_core"}
             /\ ctx.derivative_core
                    = Subtract(inputs.prediction.data, inputs.target.data)
        ELSE ctx.attrs = {}

C6_Witness ==
    /\ ForwardReturned
    /\ ~inputs.prediction.requires_grad
    /\ inputs.target.requires_grad
    /\ ctx.attrs = {}

\* C7: the Tensor forward returns has the prediction's requires_grad and
\* is a leaf exactly when that is false, whatever the target's requires_grad
C7_OutputFlagsFollowPrediction ==
    ForwardReturned =>
        /\ ret.value.requires_grad = inputs.prediction.requires_grad
        /\ ret.value.is_leaf = ~inputs.prediction.requires_grad

C7_Witness ==
    /\ ForwardReturned
    /\ ~inputs.prediction.requires_grad
    /\ inputs.target.requires_grad
    /\ ret.value.is_leaf

\* sign of a residual, 0 at 0
Sgn(e) == IF e > 0 THEN 1 ELSE IF e < 0 THEN -1 ELSE 0

\* C8: AbsoluteError.derivative is the sum over the samples of
\* sign(residual) times the sample's row of X, divided by M, a sample
\* with a zero residual contributing 0
C8_ZeroResidualContributesZero ==
    classic.op = "abs_derivative" =>
        LET X == classic.X
            M == X.shape[1]
            N == X.shape[2]
            E == Residual(X, classic.Y, classic.W)
            R == Len(E.data) \div M
            contribution(r, i, j) ==
                IF E.data[(r - 1) * M + i] = 0 THEN 0
                ELSE Sgn(E.data[(r - 1) * M + i]) * X.data[(i - 1) * N + j]
        IN  /\ classic.out.div = M
            /\ Len(classic.out.data) = N * R
            /\ \A j \in 1..N, r \in 1..R :
                   classic.out.data[(j - 1) * R + r]
                       = SumSeq([i \in 1..M |-> contribution(r, i, j)])

C8_Witness ==
    /\ classic.op = "abs_derivative"
    /\ LET E == Residual(classic.X, classic.Y, classic.W)
       IN  /\ \E k \in 1..Len(E.data) : E.data[k] = 0
           /\ \E k \in 1..Len(E.data) : E.data[k] > 0
           /\ \E k \in 1..Len(E.data) : E.data[k] < 0
    /\ \E k \in 1..Len(classic.out.data) : classic.out.data[k] # 0

\* C9: where |X - Y| = delta the quadratic and the linear branch of
\* Huber.loss agree, and Huber.loss takes the quadratic branch exactly
\* where |X - Y| <= delta
C9_HuberContinuous ==
    classic.op = "huber_loss" =>
        LET d == Subtract(classic.X, classic.Y)
            delta == classic.delta
        IN  \A k \in 1..Len(d.data) :
                /\ Abs(d.data[k]) = delta =>
                       QuadraticBranch(d.data[k])
                           = LinearBranch(d.data[k], delta)
                /\ Abs(d.data[k]) <= delta =>
                       classic.out.data[k] * 2
                           = d.data[k] * d.data[k] * classic.out.div
                /\ Abs(d.data[k]) > delta =>
                       classic.out.data[k] * 2
                           = delta * (2 * Abs(d.data[k]) - delta)
                               * classic.out.div

C9_Witness ==
    /\ classic.op = "huber_loss"
    /\ LET d == Subtract(classic.X, classic.Y)
       IN  /\ \E k \in 1..Len(d.data) : Abs(d.data[k]) = classic.delta
           /\ \E k \in 1..Len(d.data) : Abs(d.data[k]) > classic.delta
           /\ \E k \in 1..Len(d.data) : Abs(d.data[k]) < classic.delta

\* C10: backward returns a gradient exactly on a context that a forward
\* whose prediction required gradient has written, raises otherwise, and
\* never changes the context
C10_BackwardNeedsWrittenContext ==
    [][ret'.op = "backward" =>
          /\ ctx' = ctx
          /\ IF ForwardSucceeded /\ inputs.prediction.requires_grad
             THEN ret'.status = "ok"
             ELSE /\ ret'.status = "raised"
                  /\ ret'.exc = "AttributeError"
                  /\ ret'.value = NoValue]_vars

C10_Witness ==
    /\ ret.op = "backward"
    /\ ret.status = "raised"
    /\ ForwardSucceeded
    /\ ~inputs.prediction.requires_grad

====
